---- MODULE Spec2Model ----
(***************************************************************************)
(* Model of remoteprocess/src/linux/libunwind/mod.rs: the LibUnwind        *)
(* session, the Cursor it creates, the Iterator over stack frames and the  *)
(* procedure-name query, run against a foreign library whose return codes  *)
(* are chosen nondeterministically (a mock that records the calls it gets).*)
(***************************************************************************)
EXTENDS Integers, Sequences, FiniteSets, TLC

VARIABLES
    session,      \* the LibUnwind value: [state, addr_space]
    cursor,       \* the live Cursor value [cursor, upt, initial_frame], or NoCursor;
                  \* its field cursor is the address space init_remote bound it to
    uptDestroys,  \* uptDestroys[h]: _UPT_destroy calls on attach handle h (h = 1..Len)
    trace,        \* the first logCap next() calls on the current cursor: [calls, ret]
    logCap,       \* capacity of the recorder behind trace
    pn,           \* proc_name() in progress: [active, len] (len = name.len())
    op,           \* the operation that ran last
    calls,        \* the foreign calls the last operation made, in order
    lastResult    \* the value the last operation returned

vars == <<session, cursor, uptDestroys, trace, logCap, pn, op, calls, lastResult>>

----------------------------------------------------------------------------
(* Bounds of the model *)

MaxLog == 5         \* next() calls recorded per cursor when draining
LifecycleLog == 2   \* next() calls recorded per cursor in the lifecycle model
MaxCursors == 2     \* cursor() calls per session
MaxTooSmall == 2    \* "too small" answers of the library per proc_name() call

(* Inputs *)

Pids == {1, 2}
AddrSpaces == {0, 1}            \* create_addr_space: 0 is the null handle
StepCodes == {-1, 0, 1}         \* step: < 0 error, 0 no more frames, > 0 a frame
RegCodes == {-3, 0}             \* get_reg: 0 success, otherwise an error code
RegValues == {0, 1, 2}          \* register contents
InitCodes == {-1, 0, 1}         \* init_remote: 0 success, otherwise an error code
QueryCodes == {-3, 0, 4}        \* get_reg as called by register(n), bx(), ip(), sp()
PolicyCodes == {0}              \* set_caching_policy (ignored by the caller)
NameCodes == {-2, -1, 0}        \* get_proc_name
\* what get_proc_name writes before the terminating NUL: plain text, text
\* with a NUL inside, a two-byte character, a lead byte cut short, a byte
\* that is never valid, a continuation byte on its own
Names == { <<>>, <<65, 65>>, <<65, 0, 66>>, <<195, 169>>, <<65, 195>>,
           <<255, 65>>, <<169>> }

(* Program constants *)

UNW_REG_IP == 16
UNW_REG_SP == 7
UNW_CACHE_PER_THREAD == 2
BX == 3
TooSmall == -2
InitialCapacity == 128

----------------------------------------------------------------------------
(* Values *)

NoCursor == [live |-> FALSE]
Ok(v) == [tag |-> "Ok", val |-> v]
Err(c) == [tag |-> "Err", val |-> c]
None == [tag |-> "None", val |-> 0]
Unit == [tag |-> "Unit", val |-> 0]
Pending == [tag |-> "Pending", val |-> 0]

\* one foreign call: the function, its distinguishing argument, the code or
\* handle it returned, and what it wrote through its out-pointer
FC(fn, arg, ret, out) == [fn |-> fn, arg |-> arg, ret |-> ret, out |-> out]

CallsOf(cs, fn) == SelectSeq(cs, LAMBDA c : c.fn = fn)

----------------------------------------------------------------------------
(* Text conversion: CStr::from_ptr(..).to_string_lossy().into_owned() *)

\* the bytes before the first NUL
RECURSIVE CStrBytes(_)
CStrBytes(buf) ==
    IF buf = <<>> \/ Head(buf) = 0 THEN <<>>
    ELSE <<Head(buf)>> \o CStrBytes(Tail(buf))

Replacement == <<239, 191, 189>>    \* U+FFFD in UTF-8

IsContinuation(b) == b >= 128 /\ b <= 191

\* variant: invalid bytes are dropped, with every byte that is not ASCII
ToStringDropInvalid(bytes) == SelectSeq(bytes, LAMBDA b : b < 128)

\* A String is modelled by its UTF-8 bytes.  One- and two-byte forms are
\* decoded; every other byte is an invalid sequence of length one.
RECURSIVE ToStringLossy(_)
ToStringLossy(bytes) ==
    IF bytes = <<>> THEN <<>>
    ELSE LET b == Head(bytes) IN
         IF b < 128 THEN <<b>> \o ToStringLossy(Tail(bytes))
         ELSE IF b >= 194 /\ b <= 223 /\ Len(bytes) >= 2 /\ IsContinuation(bytes[2])
              THEN <<b, bytes[2]>> \o ToStringLossy(Tail(Tail(bytes)))
         ELSE Replacement \o ToStringLossy(Tail(bytes))

----------------------------------------------------------------------------
(* The recorder behind trace *)

Record(t, entry) == IF Len(t) < logCap THEN Append(t, entry) ELSE t

----------------------------------------------------------------------------
(* LibUnwind *)

Init ==
    /\ session = [state |-> "none", addr_space |-> 0]
    /\ cursor = NoCursor
    /\ uptDestroys = <<>>
    /\ trace = <<>>
    /\ logCap = LifecycleLog
    /\ pn = [active |-> FALSE, len |-> 0]
    /\ op = "init"
    /\ calls = <<>>
    /\ lastResult = Unit

\* LibUnwind::new(): the handle create_addr_space returns is stored unchecked
NewResult(addr_space) == Ok("LibUnwind")

\* variant: the caching policy is never set
NewCallsNoPolicy(addr_space, policyRet) ==
    << FC("create_addr_space", 0, addr_space, <<>>) >>

\* the foreign calls of new(): create the address space, then set its policy
NewCalls(addr_space, policyRet) ==
    << FC("create_addr_space", 0, addr_space, <<>>),
       FC("set_caching_policy", addr_space, policyRet, <<UNW_CACHE_PER_THREAD>>) >>

New(addr_space, policyRet) ==
    /\ session.state = "none"
    /\ ~pn.active
    /\ calls' = NewCalls(addr_space, policyRet)
    /\ lastResult' = NewResult(addr_space)
    /\ session' = IF lastResult'.tag = "Ok"
                  THEN [state |-> "alive", addr_space |-> addr_space]
                  ELSE session
    /\ op' = "new"
    /\ UNCHANGED <<cursor, uptDestroys, trace, logCap, pn>>

\* variant: only a negative code is taken for a failure
InitFailedNegative(ret) == ret < 0

\* if ret != 0
InitFailed(ret) == ret # 0

\* LibUnwind::cursor(pid)
CursorCall(pid, ret) ==
    /\ session.state = "alive"
    /\ ~cursor.live
    /\ ~pn.active
    /\ Len(uptDestroys) < MaxCursors
    /\ LET upt == Len(uptDestroys) + 1
           created == Append(uptDestroys, 0)   \* _UPT_create(pid)
       IN /\ calls' = << FC("_UPT_create", pid, upt, <<>>),
                         FC("init_remote", upt, ret, <<session.addr_space>>) >>
          /\ uptDestroys' = created
          \* on the early return nothing owns upt: no _UPT_destroy is called
          /\ IF InitFailed(ret)
             THEN /\ lastResult' = Err(ret)
                  /\ UNCHANGED cursor
             ELSE /\ lastResult' = Ok("Cursor")
                  /\ cursor' = [live |-> TRUE, cursor |-> session.addr_space,
                                upt |-> upt, initial_frame |-> TRUE]
    /\ trace' = <<>>
    /\ op' = "cursor"
    /\ UNCHANGED <<session, logCap, pn>>

\* Drop for LibUnwind
DropSession ==
    /\ session.state = "alive"
    /\ ~pn.active
    /\ calls' = << FC("destroy_addr_space", session.addr_space, 0, <<>>) >>
    /\ session' = [session EXCEPT !.state = "dropped"]
    /\ op' = "drop_session"
    /\ lastResult' = Unit
    /\ UNCHANGED <<cursor, uptDestroys, trace, logCap, pn>>

----------------------------------------------------------------------------
(* Cursor *)

\* variant: every failure is reported with one fixed code
RegisterResultFixedCode(code, value) == IF code = 0 THEN Ok(value) ELSE Err(-1)

\* Cursor::register: the match on get_reg's return
RegisterResult(code, value) == IF code = 0 THEN Ok(value) ELSE Err(code)

\* variant: a register query consumes the first frame
RegisterClearsFlag(reg, code, value) ==
    /\ cursor.live
    /\ ~pn.active
    /\ calls' = << FC("get_reg", reg, code, <<value>>) >>
    /\ lastResult' = RegisterResult(code, value)
    /\ cursor' = [cursor EXCEPT !.initial_frame = FALSE]
    /\ op' = "register"
    /\ UNCHANGED <<session, uptDestroys, trace, logCap, pn>>

\* register(n), bx(), ip(), sp()
Register(reg, code, value) ==
    /\ cursor.live
    /\ ~pn.active
    /\ calls' = << FC("get_reg", reg, code, <<value>>) >>
    /\ lastResult' = RegisterResult(code, value)
    /\ op' = "register"
    /\ UNCHANGED <<session, cursor, uptDestroys, trace, logCap, pn>>

\* variant: step is called on the first frame too
CallsStepAlways(c) == TRUE

\* whether next() calls step: only when this is not the first frame
CallsStep(c) == ~c.initial_frame

\* variant: the ip is read after a step that returned 0, too
StepContinuesAtEnd(ret) == ret >= 0

\* the match on step's return: TRUE when next() goes on to read the ip
StepContinues(ret) == ret > 0

\* variant: a step return of 0 is reported like any other code
StepResultNoEnd(ret) == Err(ret)

StepResult(ret) == IF ret = 0 THEN None ELSE Err(ret)

\* variant: the Ok(0) arm is missing
IpResultNoSentinel(r) == r

\* the match on self.ip()
IpResult(r) ==
    IF r.tag = "Ok" /\ r.val = 0 THEN None
    ELSE r

\* Iterator for Cursor: next()
NextCall(stepRet, code, value) ==
    /\ cursor.live
    /\ ~pn.active
    /\ LET stepped == CallsStep(cursor)
           stepCalls == IF stepped THEN << FC("step", cursor.upt, stepRet, <<>>) >> ELSE <<>>
           reads == ~stepped \/ StepContinues(stepRet)
           regCalls == IF reads THEN << FC("get_reg", UNW_REG_IP, code, <<value>>) >> ELSE <<>>
       IN /\ calls' = stepCalls \o regCalls
          /\ lastResult' = IF reads THEN IpResult(RegisterResult(code, value))
                           ELSE StepResult(stepRet)
          \* inputs that are not consumed are fixed, so that one call is one step
          /\ stepped \/ stepRet = 0
          /\ reads \/ (code = 0 /\ value = 0)
          /\ (reads /\ code # 0) => value = 0
    /\ cursor' = [cursor EXCEPT !.initial_frame = FALSE]
    /\ trace' = Record(trace, [calls |-> calls', ret |-> lastResult'])
    /\ op' = "next"
    /\ UNCHANGED <<session, uptDestroys, logCap, pn>>

\* variant: the handle is released twice
DropDestroysTwice(d, upt) == [d EXCEPT ![upt] = @ + 2]

\* Drop for Cursor: the attach handles after _UPT_destroy(self.upt)
DropDestroys(d, upt) == [d EXCEPT ![upt] = @ + 1]

DropCursor ==
    /\ cursor.live
    /\ ~pn.active
    /\ calls' = << FC("_UPT_destroy", cursor.upt, 0, <<>>) >>
    /\ uptDestroys' = DropDestroys(uptDestroys, cursor.upt)
    /\ cursor' = NoCursor
    /\ op' = "drop_cursor"
    /\ lastResult' = Unit
    /\ UNCHANGED <<session, trace, logCap, pn>>

----------------------------------------------------------------------------
(* Cursor::proc_name: one library call per step of the loop *)

\* variant: the buffer grows by a fixed amount
GrowLinear(len) == len + InitialCapacity

\* let new_length = name.len() * 2
Grow(len) == len * 2

\* variant: every negative code is taken for "too small"
RetriesOnAnyError(ret) == ret < 0

\* the -2 arm of the match: grow the buffer and call again
Retries(ret) == ret = TooSmall

\* one pass of the loop body with a buffer of len bytes
ProcNamePass(len, ret, bytes) ==
    /\ calls' = Append(IF pn.active THEN calls ELSE <<>>,
                       FC("get_proc_name", len, ret, IF ret = 0 THEN bytes ELSE <<>>))
    /\ ret # 0 => bytes = <<>>
    /\ IF ret = 0
       THEN /\ lastResult' = Ok(ToStringLossy(CStrBytes(bytes)))
            /\ pn' = [active |-> FALSE, len |-> 0]
       ELSE IF Retries(ret)
       THEN /\ Len(calls') <= MaxTooSmall
            /\ lastResult' = Pending
            /\ pn' = [active |-> TRUE, len |-> Grow(len)]
       ELSE /\ lastResult' = Err(ret)
            /\ pn' = [active |-> FALSE, len |-> 0]
    /\ op' = "proc_name"
    /\ UNCHANGED <<session, cursor, uptDestroys, trace, logCap>>

\* entry: name = vec![0; 128], then the first pass
ProcName(ret, bytes) ==
    /\ cursor.live
    /\ ~pn.active
    /\ ProcNamePass(InitialCapacity, ret, bytes)

\* continue: the pass after a "too small" answer
ProcNameRetry(ret, bytes) ==
    /\ pn.active
    /\ ProcNamePass(pn.len, ret, bytes)

----------------------------------------------------------------------------

Next ==
    \/ \E a \in AddrSpaces, p \in PolicyCodes : New(a, p)
    \/ \E pid \in Pids, ret \in InitCodes : CursorCall(pid, ret)
    \/ DropSession
    \/ \E reg \in {BX, UNW_REG_IP, UNW_REG_SP}, c \in QueryCodes, v \in RegValues :
          /\ (c # 0 => v = 0)
          /\ Register(reg, c, v)
    \/ \E s \in StepCodes, c \in RegCodes, v \in RegValues : NextCall(s, c, v)
    \/ DropCursor
    \/ \E ret \in NameCodes, bytes \in Names : ProcName(ret, bytes)
    \/ \E ret \in NameCodes, bytes \in Names : ProcNameRetry(ret, bytes)

Spec == Init /\ [][Next]_vars

----------------------------------------------------------------------------
(* Draining one cursor: for item in cursor { .. } *)

DrainInit ==
    /\ session = [state |-> "alive", addr_space |-> 1]
    /\ cursor = [live |-> TRUE, cursor |-> 1, upt |-> 1, initial_frame |-> TRUE]
    /\ uptDestroys = <<0>>
    /\ trace = <<>>
    /\ logCap = MaxLog
    /\ pn = [active |-> FALSE, len |-> 0]
    /\ op = "cursor"
    /\ calls = << FC("_UPT_create", 1, 1, <<>>), FC("init_remote", 1, 0, <<1>>) >>
    /\ lastResult = Ok("Cursor")

DrainNext == \E s \in StepCodes, c \in RegCodes, v \in RegValues : NextCall(s, c, v)

DrainSpec == DrainInit /\ [][DrainNext]_vars /\ WF_vars(DrainNext)

----------------------------------------------------------------------------
(* Reading the recorded calls *)

RECURSIVE AllCalls(_)
AllCalls(t) == IF t = <<>> THEN <<>> ELSE Head(t).calls \o AllCalls(Tail(t))

Rets(cs) == [i \in 1..Len(cs) |-> cs[i].ret]

\* the codes step returned to the recorded next() calls, in order
StepRets(t) == Rets(CallsOf(AllCalls(t), "step"))

\* every recorded instruction-pointer read succeeded with a non-zero value
IpReadsNonZero(t) ==
    \A i \in 1..Len(t) : \A k \in 1..Len(t[i].calls) :
        t[i].calls[k].fn = "get_reg" =>
            t[i].calls[k].ret = 0 /\ t[i].calls[k].out[1] # 0

SteppedWith(cs, code) == \E k \in 1..Len(cs) : cs[k].fn = "step" /\ cs[k].ret = code
StepFailed(cs) == \E k \in 1..Len(cs) : cs[k].fn = "step" /\ cs[k].ret < 0
ReadIp(cs, code, value) ==
    \E k \in 1..Len(cs) :
        cs[k].fn = "get_reg" /\ cs[k].arg = UNW_REG_IP /\ cs[k].ret = code
        /\ cs[k].out[1] = value
ReadIpFailed(cs) ==
    \E k \in 1..Len(cs) : cs[k].fn = "get_reg" /\ cs[k].ret # 0

----------------------------------------------------------------------------
(* C1: once next() has yielded an error because step or the instruction-   *)
(* pointer read failed, every later next() on the cursor returns None.     *)
(* The code keeps no such state: the next call steps again.                *)
C1_ErrorIsTerminal ==
    \A i, j \in 1..Len(trace) :
        (i < j /\ trace[i].ret.tag = "Err") => trace[j].ret.tag = "None"

(* C2: once next() has returned None, every later next() returns None and  *)
(* does not call step.  The code calls step on every call but the first.   *)
C2_ExhaustedIsTerminal ==
    \A i, j \in 1..Len(trace) :
        (i < j /\ trace[i].ret.tag = "None") =>
            /\ trace[j].ret.tag = "None"
            /\ CallsOf(trace[j].calls, "step") = <<>>

(* C3: every attach handle _UPT_create returned is released exactly once   *)
(* as soon as no cursor holds it, also when init_remote failed.            *)
C3_HandlesReleased ==
    \A h \in 1..Len(uptDestroys) :
        IF cursor.live /\ cursor.upt = h
        THEN uptDestroys[h] = 0
        ELSE uptDestroys[h] = 1

(* C4: dropping a Cursor releases its attach handle exactly once, in       *)
(* whatever state it is dropped, and nothing but the drop releases it.     *)
C4_DropReleasesOnce ==
    [][ /\ (cursor.live /\ ~cursor'.live) =>
              /\ uptDestroys[cursor.upt] = 0
              /\ uptDestroys' = [uptDestroys EXCEPT ![cursor.upt] = 1]
        /\ ~(cursor.live /\ ~cursor'.live) =>
              \A h \in 1..Len(uptDestroys) : uptDestroys'[h] = uptDestroys[h]
        /\ cursor'.live => uptDestroys'[cursor'.upt] = 0
      ]_vars

\* a cursor dropped after next() yielded an error, its handle released once
C4_Witness ==
    /\ op = "drop_cursor"
    /\ Len(trace) = 2
    /\ trace[1].ret.tag = "Ok"
    /\ trace[2].ret.tag = "Err"
    /\ uptDestroys[Len(uptDestroys)] = 1

\* the mocked library of C5: step returns 1, 1, 1, 0 and every
\* instruction-pointer read succeeds with a non-zero value
C5_Mock(t) == StepRets(t) = <<1, 1, 1, 0>> /\ IpReadsNonZero(t)

(* C5 as stated: with step returning 1, 1, 1, 0 a drain yields exactly 3   *)
(* frames, then None.                                                      *)
C5_ThreeFrames ==
    C5_Mock(trace) =>
        /\ Len(trace) = 4
        /\ \A i \in 1..3 : trace[i].ret.tag = "Ok"
        /\ trace[4].ret.tag = "None"

(* C5 amended: with step returning 1, 1, 1, 0 a drain yields exactly 4     *)
(* frames (the attach-time frame, then one per successful step), then None.*)
C5_FourFrames ==
    C5_Mock(trace) =>
        /\ Len(trace) = 5
        /\ \A i \in 1..4 : trace[i].ret.tag = "Ok" /\ trace[i].ret.val # 0
        /\ trace[5].ret.tag = "None"

C5_Witness ==
    /\ C5_Mock(trace)
    /\ op = "next"
    /\ lastResult.tag = "None"
    /\ Len(trace) = 5

(* C6: cursor(pid) and the first next() do not call step; the first next() *)
(* clears the initial-frame flag and reads the instruction pointer once,   *)
(* and what it yields is that read.                                        *)
C6_FirstFrameWithoutStep ==
    /\ op = "cursor" => CallsOf(calls, "step") = <<>>
    /\ (cursor.live /\ trace = <<>>) => cursor.initial_frame
    /\ Len(trace) >= 1 =>
          /\ Len(trace[1].calls) = 1
          /\ trace[1].calls[1].fn = "get_reg"
          /\ trace[1].calls[1].arg = UNW_REG_IP
          /\ cursor.live => ~cursor.initial_frame
          /\ trace[1].ret.tag = "Ok" =>
                /\ trace[1].calls[1].ret = 0
                /\ trace[1].ret.val = trace[1].calls[1].out[1]

C6_Witness ==
    /\ op = "next"
    /\ Len(trace) = 1
    /\ trace[1].ret = Ok(2)

(* C7: next() never yields Ok(0): when the instruction pointer reads as 0, *)
(* on the first frame or after a successful step, it returns None.         *)
C7_NeverOkZero ==
    /\ \A i \in 1..Len(trace) :
          /\ ~(trace[i].ret.tag = "Ok" /\ trace[i].ret.val = 0)
          /\ ReadIp(trace[i].calls, 0, 0) => trace[i].ret.tag = "None"
    /\ op = "next" =>
          /\ ~(lastResult.tag = "Ok" /\ lastResult.val = 0)
          /\ ReadIp(calls, 0, 0) => lastResult.tag = "None"

\* the instruction pointer read as 0 after a successful step
C7_Witness ==
    /\ op = "next"
    /\ SteppedWith(calls, 1)
    /\ ReadIp(calls, 0, 0)
    /\ lastResult.tag = "None"

(* C8 as stated: draining always reaches a next() that returns None,       *)
(* whatever the library answers.                                           *)
C8_DrainTerminates == <>(op = "next" /\ lastResult.tag = "None")

\* Not even counting a yielded error as the end of the drain makes it true:
\* a library that reports a frame on every step is never drained.
C8_DrainEndsOrFails == <>(op = "next" /\ lastResult.tag \in {"None", "Err"})

(* C8 amended: next() returns None exactly when, in that call, step        *)
(* returned 0 or the instruction pointer read as 0; a drain ends only if   *)
(* the library gives one of these answers.                                 *)
C8_NoneOnlyAtEnd ==
    /\ op = "next" =>
          (lastResult.tag = "None" <=> (SteppedWith(calls, 0) \/ ReadIp(calls, 0, 0)))
    /\ \A i \in 1..Len(trace) :
          trace[i].ret.tag = "None" <=>
              (SteppedWith(trace[i].calls, 0) \/ ReadIp(trace[i].calls, 0, 0))

\* a drain the library never ends: every recorded call yielded a frame
C8_Witness ==
    /\ op = "next"
    /\ Len(trace) = logCap
    /\ \A i \in 1..Len(trace) : trace[i].ret.tag = "Ok"
    /\ lastResult.tag = "Ok"

(* C9: new() returns Err when create_addr_space fails, so a session        *)
(* returned as Ok holds a non-null address space.                          *)
C9_NewChecksCreate ==
    /\ (op = "new" /\ calls[1].ret = 0) => lastResult.tag = "Err"
    /\ session.state = "alive" => session.addr_space # 0

(* C10: the i-th get_proc_name call of one proc_name() gets a buffer of    *)
(* 128 * 2^(i-1) bytes; after two "too small" answers and a success there  *)
(* were three calls, with 128, 256 and 512 bytes, and the result is Ok     *)
(* with the name the library wrote; each proc_name() starts at 128.        *)
C10_BufferGrowth ==
    op = "proc_name" =>
        /\ \A i \in 1..Len(calls) :
              /\ calls[i].fn = "get_proc_name"
              /\ calls[i].arg = 128 * 2^(i - 1)
        /\ pn.active => pn.len = 128 * 2^Len(calls)
        /\ Rets(calls) = <<-2, -2, 0>> =>
              /\ [i \in 1..3 |-> calls[i].arg] = <<128, 256, 512>>
              /\ lastResult.tag = "Ok"
              \* a name that is valid text with no NUL inside comes back as written
              /\ calls[3].out \in {<<>>, <<65, 65>>, <<195, 169>>} =>
                    lastResult.val = calls[3].out

C10_Witness ==
    /\ op = "proc_name"
    /\ Rets(calls) = <<-2, -2, 0>>
    /\ calls[3].arg = 512
    /\ calls[3].out = <<65, 65>>
    /\ lastResult = Ok(<<65, 65>>)

(* C11: error codes are passed through verbatim: register(n), bx(), ip()   *)
(* and sp() return Ok(value) exactly when get_reg returns 0 and otherwise  *)
(* Err with the code get_reg returned; the errors of next(), cursor(pid)   *)
(* and proc_name() carry the code of the foreign call that failed.         *)
C11_CodesVerbatim ==
    /\ op = "register" =>
          /\ Len(calls) = 1 /\ calls[1].fn = "get_reg"
          /\ calls[1].ret = 0 => lastResult = Ok(calls[1].out[1])
          /\ calls[1].ret # 0 => lastResult = Err(calls[1].ret)
    /\ (op = "next" /\ lastResult.tag = "Err") =>
          /\ calls[Len(calls)].fn \in {"step", "get_reg"}
          /\ calls[Len(calls)].fn = "step" => calls[Len(calls)].ret < 0
          /\ calls[Len(calls)].ret # 0
          /\ lastResult.val = calls[Len(calls)].ret
    /\ (op = "next" /\ StepFailed(calls)) => lastResult.tag = "Err"
    /\ op = "cursor" =>
          /\ calls[2].fn = "init_remote"
          /\ calls[2].ret # 0 => lastResult = Err(calls[2].ret)
          /\ calls[2].ret = 0 => lastResult.tag = "Ok"
    /\ (op = "proc_name" /\ lastResult.tag = "Err") =>
          /\ calls[Len(calls)].fn = "get_proc_name"
          /\ calls[Len(calls)].ret \notin {0, TooSmall}
          /\ lastResult.val = calls[Len(calls)].ret

\* sp() failed with a positive code and returned that code
C11_Witness ==
    /\ op = "register"
    /\ calls[1].arg = UNW_REG_SP
    /\ calls[1].ret = 4
    /\ lastResult = Err(4)

\* what to_string_lossy makes of each name the library writes
C12_Expected(bytes) ==
    CASE bytes = <<>> -> <<>>
      [] bytes = <<65, 65>> -> <<65, 65>>
      [] bytes = <<65, 0, 66>> -> <<65>>
      [] bytes = <<195, 169>> -> <<195, 169>>
      [] bytes = <<65, 195>> -> <<65, 239, 191, 189>>
      [] bytes = <<255, 65>> -> <<239, 191, 189, 65>>
      [] bytes = <<169>> -> <<239, 191, 189>>

(* C12: when get_proc_name reports success, proc_name() returns Ok also    *)
(* for bytes that are not valid text: each invalid sequence becomes the    *)
(* replacement character, and valid text (up to the NUL) comes back as it  *)
(* was written.                                                            *)
C12_LossyName ==
    (op = "proc_name" /\ calls[Len(calls)].ret = 0) =>
        /\ lastResult.tag = "Ok"
        /\ lastResult.val = C12_Expected(calls[Len(calls)].out)

\* a lead byte cut short was replaced, the text before it kept
C12_Witness ==
    /\ op = "proc_name"
    /\ calls[Len(calls)].ret = 0
    /\ calls[Len(calls)].out = <<65, 195>>
    /\ lastResult = Ok(<<65, 239, 191, 189>>)

(* C13: a session outlives every cursor made from it: step, get_reg and    *)
(* get_proc_name are never called on a cursor after destroy_addr_space was *)
(* called on its address space.  Cursor does not borrow the LibUnwind, so  *)
(* the session can be dropped first and the cursor used afterwards.        *)
C13_SessionOutlivesCursor ==
    (op \in {"next", "register", "proc_name"} /\ calls # <<>>) =>
        session.state = "alive"

(* C14: get_proc_name is called again only after a -2 answer, each time    *)
(* with twice the capacity; 0 ends the loop with Ok and any other code     *)
(* ends it at once with Err of that code; so the loop is still running     *)
(* exactly while every answer so far was -2.                               *)
C14_RetryProtocol ==
    op = "proc_name" =>
        LET n == Len(calls) IN
        /\ n >= 1
        /\ \A i \in 1..n : calls[i].fn = "get_proc_name"
        /\ \A i \in 1..(n - 1) :
              /\ calls[i].ret = -2
              /\ calls[i + 1].arg = 2 * calls[i].arg
        /\ pn.active <=> calls[n].ret = -2
        /\ pn.active => (lastResult.tag = "Pending" /\ pn.len = 2 * calls[n].arg)
        /\ lastResult.tag = "Ok" <=> calls[n].ret = 0
        /\ lastResult.tag = "Err" <=> calls[n].ret \notin {0, -2}
        /\ lastResult.tag = "Err" => lastResult.val = calls[n].ret

\* two "too small" answers, then another error: three calls, Err of that code
C14_Witness ==
    /\ op = "proc_name"
    /\ Rets(calls) = <<-2, -2, -1>>
    /\ ~pn.active
    /\ lastResult = Err(-1)

\* the last operation called step, get_reg or get_proc_name
UsesCursor(cs) ==
    \E k \in 1..Len(cs) : cs[k].fn \in {"step", "get_reg", "get_proc_name"}

(* C15: cursor(pid) returns a Cursor only when init_remote returned 0, and *)
(* only Err otherwise; step, get_reg and get_proc_name are called only on  *)
(* a cursor that init_remote initialised.                                  *)
C15_NoUninitialisedCursor ==
    [][ /\ (cursor'.live /\ ~cursor.live) =>
              /\ op' = "cursor"
              /\ calls'[2].fn = "init_remote"
              /\ calls'[2].ret = 0
              /\ calls'[2].arg = cursor'.upt
              /\ lastResult'.tag = "Ok"
        /\ (cursor'.live /\ cursor.live) => cursor'.upt = cursor.upt
        /\ (op' = "cursor" /\ calls'[2].ret # 0) =>
              /\ ~cursor'.live
              /\ lastResult'.tag = "Err"
        /\ (op' \in {"next", "register", "proc_name"} /\ UsesCursor(calls')) =>
              cursor.live /\ cursor'.live
      ]_vars

\* init_remote failed with a positive code: no Cursor, only Err
C15_Witness ==
    /\ op = "cursor"
    /\ calls[2].ret = 1
    /\ ~cursor.live
    /\ lastResult = Err(1)

(* C16: new() calls create_addr_space once and then set_caching_policy     *)
(* once, with the per-thread policy, on the handle it stores; no other     *)
(* operation calls either; dropping the session calls destroy_addr_space   *)
(* once, on that handle, and nothing else calls it.                        *)
C16_SessionProtocol ==
    [][ /\ op' = "new" =>
              /\ session.state = "none"
              /\ Len(calls') = 2
              /\ calls'[1].fn = "create_addr_space"
              /\ calls'[2].fn = "set_caching_policy"
              /\ calls'[2].arg = calls'[1].ret
              /\ calls'[2].out = <<UNW_CACHE_PER_THREAD>>
              /\ session'.state = "alive"
              /\ session'.addr_space = calls'[1].ret
        /\ op' # "new" =>
              /\ CallsOf(calls', "create_addr_space") = <<>>
              /\ CallsOf(calls', "set_caching_policy") = <<>>
        /\ op' = "drop_session" =>
              /\ session.state = "alive"
              /\ session'.state = "dropped"
              /\ Len(calls') = 1
              /\ calls'[1].fn = "destroy_addr_space"
              /\ calls'[1].arg = session.addr_space
        /\ op' # "drop_session" =>
              /\ CallsOf(calls', "destroy_addr_space") = <<>>
              /\ session'.state = "dropped" => session.state = "dropped"
        /\ session.state # "none" => session'.addr_space = session.addr_space
        /\ session.state = "dropped" => session'.state = "dropped"
      ]_vars

\* a session dropped after a cursor was made and used
C16_Witness ==
    /\ op = "drop_session"
    /\ session = [state |-> "dropped", addr_space |-> 1]
    /\ calls = << FC("destroy_addr_space", 1, 0, <<>>) >>
    /\ Len(trace) = 1

\* the foreign calls of one next(): at most one step, then at most one
\* instruction-pointer read, and no read after a step that returned 0 or less
C17_OneAttempt(cs) ==
    /\ Len(CallsOf(cs, "step")) <= 1
    /\ Len(CallsOf(cs, "get_reg")) <= 1
    /\ Len(cs) = Len(CallsOf(cs, "step")) + Len(CallsOf(cs, "get_reg"))
    /\ \A k \in 1..Len(cs) : cs[k].fn = "get_reg" => cs[k].arg = UNW_REG_IP
    /\ (\E k \in 1..Len(cs) : cs[k].fn = "step" /\ cs[k].ret <= 0) =>
          CallsOf(cs, "get_reg") = <<>>
    /\ Len(cs) = 2 => cs[1].fn = "step"

(* C17: one next() calls step at most once and reads the instruction       *)
(* pointer at most once; after a step that returned 0 or a negative code   *)
(* it does not read the instruction pointer; nothing is tried again.       *)
C17_NoRetryInNext ==
    /\ op = "next" => C17_OneAttempt(calls)
    /\ \A i \in 1..Len(trace) : C17_OneAttempt(trace[i].calls)

\* step failed: it was the only foreign call of that next()
C17_Witness ==
    /\ op = "next"
    /\ Len(calls) = 1
    /\ calls[1].fn = "step"
    /\ calls[1].ret = -1
    /\ lastResult = Err(-1)

(* C18: register(n), bx(), ip(), sp() and proc_name() leave the iteration  *)
(* state as it was: they do not call step, do not change the initial-frame *)
(* flag and do not release the attach handle, so the next() that follows   *)
(* starts from the same cursor.                                            *)
C18_QueriesKeepIteration ==
    [][ op' \in {"register", "proc_name"} =>
          /\ cursor.live
          /\ cursor' = cursor
          /\ trace' = trace
          /\ uptDestroys' = uptDestroys
          /\ session' = session
          /\ CallsOf(calls', "step") = <<>>
          /\ CallsOf(calls', "_UPT_destroy") = <<>>
      ]_vars

\* ip() was asked of a fresh cursor and the first frame is still to come
C18_Witness ==
    /\ op = "register"
    /\ calls[1].arg = UNW_REG_IP
    /\ cursor.live
    /\ cursor.initial_frame
    /\ trace = <<>>

\* the step calls of the i-th recorded next()
StepsIn(t, i) == Len(CallsOf(t[i].calls, "step"))

(* C19: the initial-frame flag is true from creation to the first next()   *)
(* and false ever after, and n >= 1 calls of next() have called step       *)
(* exactly n - 1 times, whatever those calls returned.                     *)
C19_FlagAndStepCount ==
    [][ /\ cursor.live /\ cursor'.live
        /\ cursor.initial_frame <=> trace = <<>>
        /\ cursor'.initial_frame <=> trace' = <<>>
        /\ ~cursor.initial_frame => ~cursor'.initial_frame
        /\ op' = "next" => ~cursor'.initial_frame
        /\ \A i \in 1..Len(trace') : StepsIn(trace', i) = (IF i = 1 THEN 0 ELSE 1)
        /\ Len(trace') >= 1 => Len(StepRets(trace')) = Len(trace') - 1
      ]_vars

\* five calls, four steps, among them a failed step and a step that returned 0
C19_Witness ==
    /\ Len(trace) = 5
    /\ StepRets(trace) = <<-1, 0, 1, -1>>
    /\ ~cursor.initial_frame

====
